---------------------------- MODULE Spec2Model ----------------------------
(***************************************************************************)
(* The social-media REST backend (Hono worker on a D1/SQLite store).       *)
(*                                                                         *)
(* State: the six tables of migrations/0001_social_media_schema.sql, the   *)
(* tokens issued so far, the clock, and one record per worker holding the  *)
(* request it is serving (its position between two store calls, its local  *)
(* variables and, once answered, its response).                            *)
(*                                                                         *)
(* Every store call (`await c.env.DB.prepare(...).run()/all()`) is one     *)
(* atomic step; the code between two awaits is local to the worker and is  *)
(* folded into the step of the store call that precedes it.  A request's   *)
(* first step is its arrival, the middleware chain and the handler down to *)
(* and including its first store call.                                     *)
(*                                                                         *)
(* A table without rows that any handler tells apart (likes, follows,      *)
(* shares: only id and created_at differ) is a bag of its key columns.     *)
(***************************************************************************)
EXTENDS Integers, FiniteSets, Bags, TLC

VARIABLES users, posts, likes, comments, follows, shares, seq,
          tokens, now, sent, req, base

store == <<users, posts, likes, comments, follows, shares, seq>>
vars == <<users, posts, likes, comments, follows, shares, seq,
          tokens, now, sent, req, base>>

---------------------------------------------------------------------------
(* Bounds of the model. *)

\* concurrent workers serving requests against the one store
NumWorkers == 2
\* users registered before the run starts (ids 1..NumUsers)
NumUsers == 2
\* posts present before the run starts (ids 1..NumPosts)
NumPosts == 1
\* requests the clients send in one run
MaxRequests == 2

Workers == 1..NumWorkers
UserIds == 1..NumUsers
PostIds == 1..NumPosts

---------------------------------------------------------------------------
(* Values *)

Tiers == {"free", "premium", "enterprise"}
Roles == {"user", "admin"}
validVisibility == {"public", "private", "followers_only"}
validMediaTypes == {"image", "video", "gif"}

\* JavaScript's undefined (a JSON body without the field)
Undefined == "undefined"
\* SQL NULL in an integer column; `parent_comment_id || null` maps 0 to it
Null == 0
\* Number(c.req.param('id')) of a non-numeric path segment
NaN == -1
isNaN(x) == x = NaN

\* jwt expiresIn: '24h', in hours
TokenTtl == 24
ServerKey == "PRIVATE_KEY"

\* the texts a post's content takes in the model, and String.length of each
LongText == "x * 5001"
Contents == {"", "hello", "edited", LongText}
ContentLength(c) ==
  CASE c = "" -> 0
    [] c = "hello" -> 5
    [] c = "edited" -> 6
    [] c = LongText -> 5001

\* bcrypt.hash / bcrypt.compare: a one-way tagging, equal only for equal input
bcryptHash(p) == <<"bcrypt", p>>
bcryptCompareAnything(p, h) == h = h
bcryptCompare(p, h) == bcryptHash(p) = h
\* the password every seeded account registers with
SeedPassword == "SecurePass123!"
Passwords == {Undefined, SeedPassword, "wrong-password"}

\* tier of the first three seeded users: free, premium, enterprise
SeedTier(u) ==
  CASE u % 3 = 1 -> "free"
    [] u % 3 = 2 -> "premium"
    [] OTHER -> "enterprise"

---------------------------------------------------------------------------
(* Rows *)

\* username of the n-th seeded user
SeedUsername(u) ==
  CASE u = 1 -> "alicejohnson"
    [] u = 2 -> "bobsmith"
    [] u = 3 -> "charliebrown"
    [] OTHER -> "dianaprince"

\* email of the n-th seeded user
SeedEmail(u) ==
  CASE u = 1 -> "alice@example.com"
    [] u = 2 -> "bob@example.com"
    [] u = 3 -> "charlie@example.com"
    [] OTHER -> "diana@example.com"

UserRow(u, tier, role) ==
  [email |-> SeedEmail(u), username |-> SeedUsername(u), bio |-> "NULL",
   tier |-> tier, role |-> role, password |-> bcryptHash(SeedPassword),
   followers_count |-> 0, following_count |-> 0, posts_count |-> 0]

PostRow(uid, content, media_type, visibility) ==
  [user_id |-> uid, content |-> content, media_type |-> media_type,
   visibility |-> visibility,
   likes_count |-> 0, comments_count |-> 0, shares_count |-> 0]

LikeRow(p, u) == [post_id |-> p, user_id |-> u]
ShareRow(p, u) == [post_id |-> p, user_id |-> u]
FollowRow(a, b) == [follower_id |-> a, following_id |-> b]
CommentRow(id, p, u, parent) ==
  [id |-> id, post_id |-> p, user_id |-> u, parent_comment_id |-> parent]

\* the rows of bag b that satisfy keep
BagFilter(b, keep(_)) == [r \in {x \in DOMAIN b : keep(x)} |-> b[r]]
BagInsert(b, r) == b (+) SetToBag({r})
\* number of rows of bag b that satisfy keep
BagCount(b, keep(_)) == BagCardinality(BagFilter(b, keep))

---------------------------------------------------------------------------
(* Tokens and the Authorization header *)

Claims(uid, tier, role) == [userId |-> uid, tier |-> tier, role |-> role]
NoUser == Claims(0, "none", "none")

\* jwtLib.sign(claims, PRIVATE_KEY, {expiresIn: '24h'}) at time t
jwtSign(claims, key, t) ==
  [claims |-> claims, key |-> key, iat |-> t, exp |-> t + TokenTtl]
jwtVerifyThroughExpiry(token) == token.key = ServerKey /\ now <= token.exp

\* jwt.verify(token, PUBLIC_KEY): the signature validates and exp is ahead
jwtVerify(token) == token.key = ServerKey /\ now < token.exp

NoToken == [claims |-> NoUser, key |-> "none", iat |-> 0, exp |-> 0]
NoHeader == [present |-> FALSE, scheme |-> "none", token |-> NoToken]
Header(scheme, token) == [present |-> TRUE, scheme |-> scheme, token |-> token]
Bearer(token) == Header("Bearer", token)

\* a token whose signature is by another key, with claims of the forger's choice
ForgedTokens ==
  {jwtSign(Claims(u, t, r), "OTHER_KEY", now) : u \in UserIds, t \in {"enterprise"}, r \in {"admin"}}

authMiddlewareAnyScheme(hdr) ==
  IF ~hdr.present
    THEN [ok |-> FALSE, status |-> 401,
          error |-> "Missing or malformed Authorization header", user |-> NoUser]
    ELSE IF jwtVerify(hdr.token)
      THEN [ok |-> TRUE, status |-> 0, error |-> "", user |-> hdr.token.claims]
      ELSE [ok |-> FALSE, status |-> 401,
            error |-> "Invalid or expired token", user |-> NoUser]

authMiddleware(hdr) ==
  IF ~hdr.present \/ hdr.scheme # "Bearer"
    THEN [ok |-> FALSE, status |-> 401,
          error |-> "Missing or malformed Authorization header", user |-> NoUser]
    ELSE IF jwtVerify(hdr.token)
      THEN [ok |-> TRUE, status |-> 0, error |-> "", user |-> hdr.token.claims]
      ELSE [ok |-> FALSE, status |-> 401,
            error |-> "Invalid or expired token", user |-> NoUser]

tierLevels(t) ==
  CASE t = "free" -> 1
    [] t = "premium" -> 2
    [] t = "enterprise" -> 3
    [] OTHER -> 0

requireTierStrictlyAbove(minTier, user) ==
  IF user = NoUser
    THEN [ok |-> FALSE, status |-> 401, error |-> "Authentication required",
          required |-> "none"]
    ELSE IF tierLevels(user.tier) <= tierLevels(minTier)
      THEN [ok |-> FALSE, status |-> 403, error |-> "Insufficient tier level",
            required |-> minTier]
      ELSE [ok |-> TRUE, status |-> 0, error |-> "", required |-> "none"]

\* the tier gate letting every admin through
requireTierAdminPasses(minTier, user) ==
  IF user = NoUser
    THEN [ok |-> FALSE, status |-> 401, error |-> "Authentication required",
          required |-> "none"]
    ELSE IF user.role # "admin" /\ tierLevels(user.tier) < tierLevels(minTier)
      THEN [ok |-> FALSE, status |-> 403, error |-> "Insufficient tier level",
            required |-> minTier]
      ELSE [ok |-> TRUE, status |-> 0, error |-> "", required |-> "none"]

requireTier(minTier, user) ==
  IF user = NoUser
    THEN [ok |-> FALSE, status |-> 401, error |-> "Authentication required",
          required |-> "none"]
    ELSE IF tierLevels(user.tier) < tierLevels(minTier)
      THEN [ok |-> FALSE, status |-> 403, error |-> "Insufficient tier level",
            required |-> minTier]
      ELSE [ok |-> TRUE, status |-> 0, error |-> "", required |-> "none"]

\* requireAdmin: the role claim must be admin
requireAdmin(user) ==
  IF user = NoUser
    THEN [ok |-> FALSE, status |-> 401, error |-> "Authentication required"]
    ELSE IF user.role # "admin"
      THEN [ok |-> FALSE, status |-> 403, error |-> "Admin access required"]
      ELSE [ok |-> TRUE, status |-> 0, error |-> ""]

---------------------------------------------------------------------------
(* Requests *)

NoBody ==
  [content |-> Undefined, media_type |-> Undefined, visibility |-> Undefined,
   password |-> Undefined, parent_comment_id |-> Null,
   username |-> Undefined, bio |-> Undefined, email |-> Undefined,
   name |-> Undefined, tier |-> Undefined]

\* the `post` of a response that carries none
NoPost == PostRow(0, "", "NULL", "none")

\* the `posts` and `pagination` of a response that carries none
NoPage == [limit |-> 0, offset |-> 0, count |-> 0, posts |-> {}]

Idle ==
  [pc |-> "idle", n |-> 0, kind |-> "none", hdr |-> NoHeader, user |-> NoUser,
   id |-> 0, body |-> NoBody,
   results |-> 0, post_user_id |-> 0, conc |-> FALSE,
   status |-> 0, msg |-> "", required |-> "none", post |-> NoPost,
   page |-> NoPage]

InFlight(s) == req[s].pc \notin {"idle", "done"}
Quiescent == \A s \in Workers : ~InFlight(s)

\* worker s may take a new request
Free(s) == ~InFlight(s) /\ sent < MaxRequests

\* the n-th request as the handler first sees it: `user` is c.get('user');
\* conc records whether another request was in flight when this one arrived
Arrived(s, kind, hdr, user, id, body) ==
  [Idle EXCEPT !.pc = "arrived", !.n = sent + 1, !.kind = kind, !.hdr = hdr,
               !.user = user, !.id = id, !.body = body,
               !.conc = \E t \in Workers \ {s} : InFlight(t)]

Reply(r, status, msg) == [r EXCEPT !.pc = "done", !.status = status, !.msg = msg]
Goto(r, pc) == [r EXCEPT !.pc = pc]

\* the step of worker s that ends in record r
Set(s, r) == req' = [req EXCEPT ![s] = r]

---------------------------------------------------------------------------
(* The store: constraints of the schema and the cascading deletes *)

\* SQL NULL in a text column
NullText == "NULL"

\* likes: both foreign keys, and UNIQUE(post_id, user_id)
likesConstraintsNoUnique(row) ==
  /\ row.post_id \in DOMAIN posts
  /\ row.user_id \in DOMAIN users

likesConstraints(row) ==
  /\ row.post_id \in DOMAIN posts
  /\ row.user_id \in DOMAIN users
  /\ ~BagIn(row, likes)

\* follows: both foreign keys, UNIQUE(follower_id, following_id), CHECK(!=)
followsConstraintsNoUnique(row) ==
  /\ row.follower_id \in DOMAIN users
  /\ row.following_id \in DOMAIN users
  /\ row.follower_id # row.following_id

followsConstraints(row) ==
  /\ row.follower_id \in DOMAIN users
  /\ row.following_id \in DOMAIN users
  /\ ~BagIn(row, follows)
  /\ row.follower_id # row.following_id

\* shares checked against the posts only
sharesConstraintsPostOnly(row) == row.post_id \in DOMAIN posts

\* shares: both foreign keys; the table declares no UNIQUE
sharesConstraints(row) ==
  /\ row.post_id \in DOMAIN posts
  /\ row.user_id \in DOMAIN users

\* comments: the three foreign keys
commentsConstraints(row) ==
  /\ row.post_id \in DOMAIN posts
  /\ row.user_id \in DOMAIN users
  /\ \/ row.parent_comment_id = Null
     \/ \E c \in comments : c.id = row.parent_comment_id

\* `x IN (list)` of SQL when the list also holds NULL: TRUE on a match,
\* otherwise NULL (unknown), never FALSE
sqlInWithNull(x, list) == IF x # NullText /\ x \in list THEN "TRUE" ELSE "NULL"
\* a CHECK constraint rejects the row only when its expression is FALSE
sqlCheck(v) == v # "FALSE"

\* posts: CHECK(media_type IN ('image', 'video', 'gif', NULL)) and
\* CHECK(visibility IN ('public', 'private', 'followers_only'))
postsChecks(row) ==
  /\ sqlCheck(sqlInWithNull(row.media_type, validMediaTypes))
  /\ sqlCheck(IF row.visibility \in validVisibility THEN "TRUE" ELSE "FALSE")

\* posts: the foreign key and the two CHECKs
postsConstraints(row) ==
  /\ row.user_id \in DOMAIN users
  /\ postsChecks(row)

\* users: UNIQUE(email), UNIQUE(username) (any number of NULLs) and the two
\* CHECKs, for a row to insert
usersConstraintsNoUnique(row) ==
  /\ row.tier \in Tiers
  /\ row.role \in Roles

usersConstraints(row) ==
  /\ \A v \in DOMAIN users : users[v].email # row.email
  /\ \A v \in DOMAIN users :
       row.username = "NULL" \/ users[v].username # row.username
  /\ row.tier \in Tiers
  /\ row.role \in Roles

\* users: UNIQUE(username) against the other rows
usersUsernameFree(u, name) ==
  \A v \in DOMAIN users \ {u} : users[v].username # name

\* the comments deleted with the set D: their replies, and the replies' replies
RECURSIVE CommentCascade(_)
CommentCascade(D) ==
  LET more == {c \in comments \ D : \E d \in D : c.parent_comment_id = d.id}
  IN IF more = {} THEN D ELSE CommentCascade(D \cup more)

\* the tables after DELETE of the posts P and the users U (ON DELETE CASCADE)
PostsGone(P, U) == P \cup {p \in DOMAIN posts : posts[p].user_id \in U}
postsAfter(P, U) == [p \in DOMAIN posts \ PostsGone(P, U) |-> posts[p]]
likesAfterNoCascade(P, U) == likes

likesAfter(P, U) ==
  BagFilter(likes, LAMBDA r : r.post_id \notin PostsGone(P, U) /\ r.user_id \notin U)
sharesAfter(P, U) ==
  BagFilter(shares, LAMBDA r : r.post_id \notin PostsGone(P, U) /\ r.user_id \notin U)
followsAfter(U) ==
  BagFilter(follows, LAMBDA r : r.follower_id \notin U /\ r.following_id \notin U)
commentsAfter(P, U) ==
  comments \ CommentCascade({c \in comments :
                               c.post_id \in PostsGone(P, U) \/ c.user_id \in U})
usersAfter(U) == [u \in DOMAIN users \ U |-> users[u]]

---------------------------------------------------------------------------
(* Initial states: the store after the seed script registered the users and *)
(* created the posts, every user holding the token registration returned.  *)

\* owner of the p-th seeded post: the users take turns
SeedOwner(p) == ((p - 1) % NumUsers) + 1

InitStore(tierOf, admins) ==
  /\ users = [u \in UserIds |->
                [UserRow(u, tierOf[u], IF u \in admins THEN "admin" ELSE "user")
                   EXCEPT !.posts_count =
                     Cardinality({p \in PostIds : SeedOwner(p) = u})]]
  /\ posts = [p \in PostIds |-> PostRow(SeedOwner(p), "hello", NullText, "public")]
  /\ likes = EmptyBag
  /\ comments = {}
  /\ follows = EmptyBag
  /\ shares = EmptyBag
  /\ seq = [users |-> NumUsers, posts |-> NumPosts, comments |-> 0]
  /\ tokens = {jwtSign(Claims(u, users[u].tier, users[u].role), ServerKey, 0) :
                 u \in UserIds}
  /\ sent = 0
  /\ req = [s \in Workers |-> Idle]
  /\ base = users

Init ==
  /\ now = 0
  /\ InitStore([u \in UserIds |-> SeedTier(u)], {})

---------------------------------------------------------------------------
(* The clock *)

\* hours the clock runs past the start
MaxTime == 25

Tick ==
  /\ now < MaxTime
  /\ now' = now + 1
  /\ UNCHANGED <<store, tokens, sent, req, base>>

---------------------------------------------------------------------------
(* POST /api/auth/register *)

\* String.length of the passwords of the model
PasswordLength(p) == IF p = "short" THEN 5 ELSE 14

RegisterBegin(s, name, email, password, username, tier) ==
  /\ Free(s)
  /\ sent' = sent + 1
  /\ LET r == Arrived(s, "register", NoHeader, NoUser, 0,
                      [NoBody EXCEPT !.name = name, !.email = email,
                                     !.password = password,
                                     !.username = username, !.tier = tier])
         existing == {u \in DOMAIN users :
                        \/ users[u].email = email
                        \/ users[u].username =
                             IF username = Undefined THEN "" ELSE username}
     IN Set(s, IF name = Undefined \/ email = Undefined \/ password = Undefined
                 THEN Reply(r, 400, "Name, email, and password are required.")
               ELSE IF PasswordLength(password) < 8
                 THEN Reply(r, 400, "Password must be at least 8 characters long.")
               ELSE IF existing # {}
                 THEN Reply(r, 409, "User with this email or username already exists.")
               ELSE Goto(r, "register:insert"))
  /\ UNCHANGED <<store, tokens, now, base>>

\* INSERT INTO users (...) VALUES (?, ?, ?, ?, ?, 'user'), then jwtLib.sign
RegisterInsert(s) ==
  /\ req[s].pc = "register:insert"
  /\ LET b == req[s].body
         userTier == IF b.tier \in Tiers THEN b.tier ELSE "free"
         id == seq.users + 1
         row == [UserRow(id, userTier, "user") EXCEPT
                   !.email = b.email,
                   !.username = IF b.username = Undefined THEN "NULL" ELSE b.username,
                   !.password = bcryptHash(b.password)]
     IN IF usersConstraints(row)
          THEN /\ users' = [u \in DOMAIN users \cup {id} |->
                              IF u = id THEN row ELSE users[u]]
               /\ seq' = [seq EXCEPT !.users = id]
               /\ tokens' = tokens \cup
                    {jwtSign(Claims(id, userTier, "user"), ServerKey, now)}
               /\ Set(s, Reply([req[s] EXCEPT !.id = id], 201,
                               "User registered successfully."))
          ELSE /\ UNCHANGED <<users, seq, tokens>>
               /\ Set(s, Reply(req[s], 500, "Registration failed."))
  /\ UNCHANGED <<posts, likes, comments, follows, shares, now, sent, base>>

---------------------------------------------------------------------------
(* POST /api/auth/login *)

\* the rows of SELECT ... FROM users WHERE email = ?
usersByEmail(email) == {u \in DOMAIN users : users[u].email = email}

LoginBegin(s, email, password) ==
  /\ Free(s)
  /\ sent' = sent + 1
  /\ LET r == Arrived(s, "login", NoHeader, NoUser, 0,
                      [NoBody EXCEPT !.email = email, !.password = password])
         found == usersByEmail(email)
         u == CHOOSE x \in found : TRUE
     IN IF email = Undefined \/ password = Undefined
          THEN /\ Set(s, Reply(r, 400, "Email and password are required."))
               /\ tokens' = tokens
          ELSE IF found = {} \/ ~bcryptCompare(password, users[u].password)
            THEN /\ Set(s, Reply(r, 401, "Invalid email or password."))
                 /\ tokens' = tokens
          ELSE /\ Set(s, Reply(r, 200, "Login successful."))
               /\ tokens' = tokens \cup
                    {jwtSign(Claims(u, users[u].tier, users[u].role), ServerKey, now)}
  /\ UNCHANGED <<store, now, base>>

---------------------------------------------------------------------------
(* POST /api/posts/:id/like *)

LikeBegin(s, hdr, id) ==
  /\ Free(s)
  /\ sent' = sent + 1
  /\ LET a == authMiddleware(hdr)
         r == Arrived(s, "like", hdr, a.user, id, NoBody)
     IN Set(s, IF ~a.ok THEN Reply(r, a.status, a.error)
               ELSE IF isNaN(id) THEN Reply(r, 400, "Invalid post ID.")
               ELSE IF id \notin DOMAIN posts THEN Reply(r, 404, "Post not found.")
               ELSE Goto(r, "like:select"))
  /\ UNCHANGED <<store, tokens, now, base>>

LikeSelect(s) ==
  /\ req[s].pc = "like:select"
  /\ Set(s, IF BagIn(LikeRow(req[s].id, req[s].user.userId), likes)
              THEN Reply(req[s], 409, "You have already liked this post.")
              ELSE Goto(req[s], "like:insert"))
  /\ UNCHANGED <<store, tokens, now, sent, base>>

LikeInsert(s) ==
  /\ req[s].pc = "like:insert"
  /\ LET row == LikeRow(req[s].id, req[s].user.userId)
     IN IF likesConstraints(row)
          THEN /\ likes' = BagInsert(likes, row)
               /\ Set(s, Goto(req[s], "like:update"))
          ELSE /\ likes' = likes
               /\ Set(s, Reply(req[s], 500, "Failed to like post."))
  /\ UNCHANGED <<users, posts, comments, follows, shares, seq, tokens, now, sent, base>>

LikeUpdate(s) ==
  /\ req[s].pc = "like:update"
  /\ posts' = IF req[s].id \in DOMAIN posts
                THEN [posts EXCEPT ![req[s].id].likes_count = @ + 1]
                ELSE posts
  /\ Set(s, Reply(req[s], 201, "Post liked successfully."))
  /\ UNCHANGED <<users, likes, comments, follows, shares, seq, tokens, now, sent, base>>

\* the UPDATE throws (the store is unreachable): the catch answers 500
LikeUpdateThrows(s) ==
  /\ req[s].pc = "like:update"
  /\ Set(s, Reply(req[s], 500, "Failed to like post."))
  /\ UNCHANGED <<store, tokens, now, sent, base>>

---------------------------------------------------------------------------
(* PATCH /api/users/:id/follow *)

FollowBegin(s, hdr, id) ==
  /\ Free(s)
  /\ sent' = sent + 1
  /\ LET a == authMiddleware(hdr)
         r == Arrived(s, "follow", hdr, a.user, id, NoBody)
     IN Set(s, IF ~a.ok THEN Reply(r, a.status, a.error)
               ELSE IF isNaN(id) THEN Reply(r, 400, "Invalid user ID.")
               ELSE IF id = a.user.userId
                 THEN Reply(r, 400, "You cannot follow yourself.")
               ELSE IF id \notin DOMAIN users THEN Reply(r, 404, "User not found.")
               ELSE Goto(r, "follow:select"))
  /\ UNCHANGED <<store, tokens, now, base>>

\* SELECT id FROM follows WHERE follower_id = ? AND following_id = ?
FollowSelect(s) ==
  /\ req[s].pc = "follow:select"
  /\ LET n == CopiesIn(FollowRow(req[s].user.userId, req[s].id), follows)
     IN Set(s, [req[s] EXCEPT !.results = n,
                              !.pc = IF n > 0 THEN "unfollow:delete"
                                              ELSE "follow:insert"])
  /\ UNCHANGED <<store, tokens, now, sent, base>>

UnfollowDelete(s) ==
  /\ req[s].pc = "unfollow:delete"
  /\ follows' = BagFilter(follows,
                          LAMBDA r : r # FollowRow(req[s].user.userId, req[s].id))
  /\ Set(s, Goto(req[s], "unfollow:update1"))
  /\ UNCHANGED <<users, posts, likes, comments, shares, seq, tokens, now, sent, base>>

\* UPDATE users SET c = c + d WHERE id = u
usersAdjustTwice(u, c, d) ==
  IF u \in DOMAIN users THEN [users EXCEPT ![u][c] = @ + d + d] ELSE users

usersAdjust(u, c, d) ==
  IF u \in DOMAIN users THEN [users EXCEPT ![u][c] = @ + d] ELSE users

UnfollowUpdate1(s) ==
  /\ req[s].pc = "unfollow:update1"
  /\ users' = usersAdjust(req[s].user.userId, "following_count", -1)
  /\ Set(s, Goto(req[s], "unfollow:update2"))
  /\ UNCHANGED <<posts, likes, comments, follows, shares, seq, tokens, now, sent, base>>

UnfollowUpdate2(s) ==
  /\ req[s].pc = "unfollow:update2"
  /\ users' = usersAdjust(req[s].id, "followers_count", -1)
  /\ Set(s, Reply(req[s], 200, "unfollowed"))
  /\ UNCHANGED <<posts, likes, comments, follows, shares, seq, tokens, now, sent, base>>

FollowInsert(s) ==
  /\ req[s].pc = "follow:insert"
  /\ LET row == FollowRow(req[s].user.userId, req[s].id)
     IN IF followsConstraints(row)
          THEN /\ follows' = BagInsert(follows, row)
               /\ Set(s, Goto(req[s], "follow:update1"))
          ELSE /\ follows' = follows
               /\ Set(s, Reply(req[s], 500, "Failed to follow/unfollow user."))
  /\ UNCHANGED <<users, posts, likes, comments, shares, seq, tokens, now, sent, base>>

FollowUpdate1(s) ==
  /\ req[s].pc = "follow:update1"
  /\ users' = usersAdjust(req[s].user.userId, "following_count", 1)
  /\ Set(s, Goto(req[s], "follow:update2"))
  /\ UNCHANGED <<posts, likes, comments, follows, shares, seq, tokens, now, sent, base>>

FollowUpdate2(s) ==
  /\ req[s].pc = "follow:update2"
  /\ users' = usersAdjust(req[s].id, "followers_count", 1)
  /\ Set(s, Reply(req[s], 200, "followed"))
  /\ UNCHANGED <<posts, likes, comments, follows, shares, seq, tokens, now, sent, base>>

---------------------------------------------------------------------------
(* DELETE /api/users/account *)

AccountBegin(s, hdr, password) ==
  /\ Free(s)
  /\ sent' = sent + 1
  /\ LET a == authMiddleware(hdr)
         r == Arrived(s, "account", hdr, a.user, 0, [NoBody EXCEPT !.password = password])
     IN Set(s, IF ~a.ok THEN Reply(r, a.status, a.error)
               ELSE IF password \in {Undefined, ""}
                 THEN Reply(r, 400, "Password is required to delete account.")
               ELSE IF a.user.userId \notin DOMAIN users
                 THEN Reply(r, 404, "User not found.")
               ELSE IF ~bcryptCompare(password, users[a.user.userId].password)
                 THEN Reply(r, 401, "Invalid password.")
               ELSE Goto(r, "account:delete"))
  /\ UNCHANGED <<store, tokens, now, base>>

\* DELETE FROM users WHERE id = ?, with the cascades of the schema
AccountDelete(s) ==
  /\ req[s].pc = "account:delete"
  /\ LET U == {req[s].user.userId}
     IN /\ users' = usersAfter(U)
        /\ posts' = postsAfter({}, U)
        /\ likes' = likesAfter({}, U)
        /\ shares' = sharesAfter({}, U)
        /\ comments' = commentsAfter({}, U)
        /\ follows' = followsAfter(U)
  /\ Set(s, Reply(req[s], 200, "Account and all associated data deleted successfully."))
  /\ UNCHANGED <<seq, tokens, now, sent, base>>

---------------------------------------------------------------------------
(* PATCH /api/posts/:id/share, behind requireTier('premium') *)

ShareBegin(s, hdr, id) ==
  /\ Free(s)
  /\ sent' = sent + 1
  /\ LET a == authMiddleware(hdr)
         g == requireTier("premium", a.user)
         r == Arrived(s, "share", hdr, a.user, id, NoBody)
     IN Set(s, IF ~a.ok THEN Reply(r, a.status, a.error)
               ELSE IF ~g.ok THEN [Reply(r, g.status, g.error) EXCEPT
                                     !.required = g.required]
               ELSE IF isNaN(id) THEN Reply(r, 400, "Invalid post ID.")
               ELSE IF id \notin DOMAIN posts THEN Reply(r, 404, "Post not found.")
               ELSE Goto(r, "share:select"))
  /\ UNCHANGED <<store, tokens, now, base>>

ShareSelect(s) ==
  /\ req[s].pc = "share:select"
  /\ Set(s, IF BagIn(ShareRow(req[s].id, req[s].user.userId), shares)
              THEN Reply(req[s], 409, "You have already shared this post.")
              ELSE Goto(req[s], "share:insert"))
  /\ UNCHANGED <<store, tokens, now, sent, base>>

ShareInsert(s) ==
  /\ req[s].pc = "share:insert"
  /\ LET row == ShareRow(req[s].id, req[s].user.userId)
     IN IF sharesConstraints(row)
          THEN /\ shares' = BagInsert(shares, row)
               /\ Set(s, Goto(req[s], "share:update"))
          ELSE /\ shares' = shares
               /\ Set(s, Reply(req[s], 500, "Failed to share post."))
  /\ UNCHANGED <<users, posts, likes, comments, follows, seq, tokens, now, sent, base>>

ShareUpdate(s) ==
  /\ req[s].pc = "share:update"
  /\ posts' = IF req[s].id \in DOMAIN posts
                THEN [posts EXCEPT ![req[s].id].shares_count = @ + 1]
                ELSE posts
  /\ Set(s, Reply(req[s], 200, "Post shared successfully."))
  /\ UNCHANGED <<users, likes, comments, follows, shares, seq, tokens, now, sent, base>>

---------------------------------------------------------------------------
(* POST /api/posts/:id/comment *)

\* !content || typeof content !== 'string' || content.trim().length === 0
contentMissing(c) == c = Undefined \/ ContentLength(c) = 0

CommentBegin(s, hdr, id, content, parent) ==
  /\ Free(s)
  /\ sent' = sent + 1
  /\ LET a == authMiddleware(hdr)
         r == Arrived(s, "comment", hdr, a.user, id,
                      [NoBody EXCEPT !.content = content,
                                     !.parent_comment_id = parent])
     IN Set(s, IF ~a.ok THEN Reply(r, a.status, a.error)
               ELSE IF isNaN(id) THEN Reply(r, 400, "Invalid post ID.")
               ELSE IF contentMissing(content)
                 THEN Reply(r, 400, "Comment content is required.")
               ELSE IF ContentLength(content) > 1000
                 THEN Reply(r, 400, "Comment must be less than 1000 characters.")
               ELSE IF id \notin DOMAIN posts THEN Reply(r, 404, "Post not found.")
               ELSE IF parent # Null THEN Goto(r, "comment:parent")
               ELSE Goto(r, "comment:insert"))
  /\ UNCHANGED <<store, tokens, now, base>>

\* the parent looked up by its id alone
CommentParentAnyPost(s) ==
  /\ req[s].pc = "comment:parent"
  /\ Set(s, IF \E c \in comments : c.id = req[s].body.parent_comment_id
              THEN Goto(req[s], "comment:insert")
              ELSE Reply(req[s], 404, "Parent comment not found."))
  /\ UNCHANGED <<store, tokens, now, sent, base>>

\* SELECT id FROM comments WHERE id = ? AND post_id = ?
CommentParent(s) ==
  /\ req[s].pc = "comment:parent"
  /\ Set(s, IF \E c \in comments : /\ c.id = req[s].body.parent_comment_id
                                   /\ c.post_id = req[s].id
              THEN Goto(req[s], "comment:insert")
              ELSE Reply(req[s], 404, "Parent comment not found."))
  /\ UNCHANGED <<store, tokens, now, sent, base>>

CommentInsert(s) ==
  /\ req[s].pc = "comment:insert"
  /\ LET row == CommentRow(seq.comments + 1, req[s].id, req[s].user.userId,
                           req[s].body.parent_comment_id)
     IN IF commentsConstraints(row)
          THEN /\ comments' = comments \cup {row}
               /\ seq' = [seq EXCEPT !.comments = @ + 1]
               /\ Set(s, Goto(req[s], "comment:update"))
          ELSE /\ UNCHANGED <<comments, seq>>
               /\ Set(s, Reply(req[s], 500, "Failed to add comment."))
  /\ UNCHANGED <<users, posts, likes, follows, shares, tokens, now, sent, base>>

CommentUpdate(s) ==
  /\ req[s].pc = "comment:update"
  /\ posts' = IF req[s].id \in DOMAIN posts
                THEN [posts EXCEPT ![req[s].id].comments_count = @ + 1]
                ELSE posts
  /\ Set(s, Reply(req[s], 201, "Comment added successfully."))
  /\ UNCHANGED <<users, likes, comments, follows, shares, seq, tokens, now, sent, base>>

---------------------------------------------------------------------------
(* DELETE /api/posts/:id *)

\* post.user_id !== user.userId && user.role !== 'admin'
deleteForbiddenOwnerOnly(owner, user) == owner # user.userId

deleteForbidden(owner, user) == owner # user.userId /\ user.role # "admin"

DeletePostBegin(s, hdr, id) ==
  /\ Free(s)
  /\ sent' = sent + 1
  /\ LET a == authMiddleware(hdr)
         r == Arrived(s, "delete", hdr, a.user, id, NoBody)
     IN Set(s, IF ~a.ok THEN Reply(r, a.status, a.error)
               ELSE IF isNaN(id) THEN Reply(r, 400, "Invalid post ID.")
               ELSE IF id \notin DOMAIN posts THEN Reply(r, 404, "Post not found.")
               ELSE IF deleteForbidden(posts[id].user_id, a.user)
                 THEN Reply([r EXCEPT !.post_user_id = posts[id].user_id],
                            403, "Unauthorized to delete this post.")
               ELSE [r EXCEPT !.post_user_id = posts[id].user_id,
                              !.pc = "delete:delete"])
  /\ UNCHANGED <<store, tokens, now, base>>

\* DELETE FROM posts WHERE id = ?, with the cascades of the schema
DeletePostDelete(s) ==
  /\ req[s].pc = "delete:delete"
  /\ LET P == {req[s].id}
     IN /\ posts' = postsAfter(P, {})
        /\ likes' = likesAfter(P, {})
        /\ shares' = sharesAfter(P, {})
        /\ comments' = commentsAfter(P, {})
  /\ Set(s, Goto(req[s], "delete:update"))
  /\ UNCHANGED <<users, follows, seq, tokens, now, sent, base>>

DeletePostUpdate(s) ==
  /\ req[s].pc = "delete:update"
  /\ users' = usersAdjust(req[s].post_user_id, "posts_count", -1)
  /\ Set(s, Reply(req[s], 200, "Post deleted successfully."))
  /\ UNCHANGED <<posts, likes, comments, follows, shares, seq, tokens, now, sent, base>>

---------------------------------------------------------------------------
(* PUT /api/posts/:id *)

\* post.user_id !== user.userId
putForbiddenUnlessAdmin(owner, user) == owner # user.userId /\ user.role # "admin"

putForbidden(owner, user) == owner # user.userId

PutBegin(s, hdr, id, content, media_type, visibility) ==
  /\ Free(s)
  /\ sent' = sent + 1
  /\ LET a == authMiddleware(hdr)
         r == Arrived(s, "put", hdr, a.user, id,
                      [NoBody EXCEPT !.content = content,
                                     !.media_type = media_type,
                                     !.visibility = visibility])
     IN Set(s, IF ~a.ok THEN Reply(r, a.status, a.error)
               ELSE IF isNaN(id) THEN Reply(r, 400, "Invalid post ID.")
               ELSE IF id \notin DOMAIN posts THEN Reply(r, 404, "Post not found.")
               ELSE IF putForbidden(posts[id].user_id, a.user)
                 THEN Reply([r EXCEPT !.post_user_id = posts[id].user_id],
                            403, "Unauthorized to edit this post.")
               ELSE IF content # Undefined /\ ContentLength(content) > 5000
                 THEN Reply([r EXCEPT !.post_user_id = posts[id].user_id],
                            400, "Content must be less than 5000 characters.")
               ELSE IF visibility # Undefined /\ visibility \notin validVisibility
                 THEN Reply([r EXCEPT !.post_user_id = posts[id].user_id],
                            400, "Invalid visibility value.")
               ELSE IF content = Undefined /\ media_type = Undefined
                       /\ visibility = Undefined
                 THEN Reply([r EXCEPT !.post_user_id = posts[id].user_id],
                            400, "No fields to update.")
               ELSE [r EXCEPT !.post_user_id = posts[id].user_id,
                              !.pc = "put:update"])
  /\ UNCHANGED <<store, tokens, now, base>>

\* the row after SET of the fields the body defines
putAssign(row, body) ==
  [row EXCEPT
     !.content = IF body.content # Undefined THEN body.content ELSE @,
     !.media_type = IF body.media_type # Undefined THEN body.media_type ELSE @,
     !.visibility = IF body.visibility # Undefined THEN body.visibility ELSE @]

\* UPDATE posts SET ... WHERE id = ?
PutUpdate(s) ==
  /\ req[s].pc = "put:update"
  /\ IF req[s].id \notin DOMAIN posts
       THEN /\ posts' = posts
            /\ Set(s, Reply(req[s], 200, "Post updated successfully."))
       ELSE IF postsChecks(putAssign(posts[req[s].id], req[s].body))
         THEN /\ posts' = [posts EXCEPT ![req[s].id] = putAssign(@, req[s].body)]
              /\ Set(s, Reply(req[s], 200, "Post updated successfully."))
         ELSE /\ posts' = posts
              /\ Set(s, Reply(req[s], 500, "Failed to update post."))
  /\ UNCHANGED <<users, likes, comments, follows, shares, seq, tokens, now, sent, base>>

---------------------------------------------------------------------------
(* POST /api/posts *)

CreateBegin(s, hdr, content, media_type, visibility) ==
  /\ Free(s)
  /\ sent' = sent + 1
  /\ LET a == authMiddleware(hdr)
         r == Arrived(s, "create", hdr, a.user, 0,
                      [NoBody EXCEPT !.content = content,
                                     !.media_type = media_type,
                                     !.visibility = visibility])
         postVisibility == IF visibility # Undefined /\ visibility \in validVisibility
                             THEN visibility ELSE "public"
         row == PostRow(a.user.userId, content,
                        IF media_type \in {Undefined, ""} THEN NullText ELSE media_type,
                        postVisibility)
     IN IF ~a.ok
          THEN Set(s, Reply(r, a.status, a.error)) /\ UNCHANGED <<posts, seq>>
        ELSE IF contentMissing(content)
          THEN /\ Set(s, Reply(r, 400, "Post content is required."))
               /\ UNCHANGED <<posts, seq>>
        ELSE IF ContentLength(content) > 5000
          THEN /\ Set(s, Reply(r, 400, "Post content must be less than 5000 characters."))
               /\ UNCHANGED <<posts, seq>>
        ELSE IF media_type \notin {Undefined, ""} /\ media_type \notin validMediaTypes
          THEN /\ Set(s, Reply(r, 400, "Invalid media type. Must be: image, video, or gif."))
               /\ UNCHANGED <<posts, seq>>
        ELSE IF ~postsConstraints(row)
          THEN /\ Set(s, Reply(r, 500, "Failed to create post."))
               /\ UNCHANGED <<posts, seq>>
        ELSE /\ posts' = [p \in DOMAIN posts \cup {seq.posts + 1} |->
                            IF p = seq.posts + 1 THEN row ELSE posts[p]]
             /\ seq' = [seq EXCEPT !.posts = @ + 1]
             /\ Set(s, [r EXCEPT !.id = seq.posts + 1, !.pc = "create:update"])
  /\ UNCHANGED <<users, likes, comments, follows, shares, tokens, now, base>>

CreateUpdate(s) ==
  /\ req[s].pc = "create:update"
  /\ users' = usersAdjust(req[s].user.userId, "posts_count", 1)
  /\ Set(s, Reply(req[s], 201, "Post created successfully."))
  /\ UNCHANGED <<posts, likes, comments, follows, shares, seq, tokens, now, sent, base>>

---------------------------------------------------------------------------
(* GET /api/posts, a route without middleware *)

\* parseInt of the query strings the clients send; any other string has no
\* leading digits and gives NaN
parseInt(q) ==
  CASE q = "0" -> 0
    [] q = "1" -> 1
    [] q = "2" -> 2
    [] q = "20" -> 20
    [] q = "150" -> 150
    [] q = "-5" -> 0 - 5
    [] OTHER -> NaN

\* Math.min, which is NaN as soon as an argument is
mathMin(a, b) == IF isNaN(a) \/ isNaN(b) THEN NaN ELSE IF a < b THEN a ELSE b

\* c.req.query(name) || fallback: an absent or empty parameter is falsy
queryOr(q, fallback) == IF q = Undefined \/ q = "" THEN fallback ELSE q

\* the expression of ORDER BY ... DESC; created_at grows with the id
orderKey(p, sort) ==
  CASE sort = "popular" -> posts[p].likes_count
    [] sort = "trending" -> posts[p].likes_count + posts[p].comments_count
                              + posts[p].shares_count
    [] OTHER -> 0

\* the number of rows that ORDER BY puts ahead of p
rowsAhead(p, rows, sort) ==
  Cardinality({q \in rows : \/ orderKey(q, sort) > orderKey(p, sort)
                            \/ orderKey(q, sort) = orderKey(p, sort) /\ q > p})

\* LIMIT ? OFFSET ? of SQLite: a negative LIMIT is no limit, a negative OFFSET
\* is 0
sqlLimitOffset(rows, sort, lim, off) ==
  LET skip == IF off < 0 THEN 0 ELSE off
  IN {p \in rows : /\ rowsAhead(p, rows, sort) >= skip
                   /\ lim < 0 \/ rowsAhead(p, rows, sort) < skip + lim}

\* the handler of GET /api/posts; bindNull tells whether D1 binds a NaN as NULL
\* or refuses it, and LIMIT NULL or OFFSET NULL is a datatype mismatch
ListBegin(s, qlimit, qoffset, qsort, qvisibility, quser, bindNull) ==
  /\ Free(s)
  /\ sent' = sent + 1
  /\ LET r == Arrived(s, "list", NoHeader, NoUser, 0, NoBody)
         limit == mathMin(parseInt(queryOr(qlimit, "20")), 100)
         offset == parseInt(queryOr(qoffset, "0"))
         sort == queryOr(qsort, "recent")
         visibility == queryOr(qvisibility, "public")
         userId == queryOr(quser, Undefined)
         byUser == userId # Undefined
         rows == {p \in DOMAIN posts :
                    /\ posts[p].visibility = visibility
                    /\ posts[p].user_id \in DOMAIN users
                    /\ byUser => /\ ~isNaN(parseInt(userId))
                                 /\ posts[p].user_id = parseInt(userId)}
         results == sqlLimitOffset(rows, sort, limit, offset)
     IN Set(s, IF \/ isNaN(limit) \/ isNaN(offset)
                  \/ byUser /\ isNaN(parseInt(userId)) /\ ~bindNull
                 THEN Reply(r, 500, "Failed to fetch posts.")
                 ELSE Reply([r EXCEPT !.page =
                               [limit |-> limit, offset |-> offset,
                                count |-> Cardinality(results),
                                posts |-> {[id |-> p,
                                            visibility |-> posts[p].visibility] :
                                             p \in results}]],
                            200, ""))
  /\ UNCHANGED <<store, tokens, now, base>>

---------------------------------------------------------------------------
(* GET /api/posts/:id, a route without middleware *)

GetBegin(s, hdr, id) ==
  /\ Free(s)
  /\ sent' = sent + 1
  /\ LET r == Arrived(s, "get", hdr, NoUser, id, NoBody)
     IN Set(s, IF isNaN(id) THEN Reply(r, 400, "Invalid post ID.")
               ELSE IF id \notin DOMAIN posts THEN Reply(r, 404, "Post not found.")
               ELSE [r EXCEPT !.post = posts[id], !.pc = "get:comments"])
  /\ UNCHANGED <<store, tokens, now, base>>

\* SELECT ... FROM comments WHERE c.post_id = ?, then c.json({ post, comments })
GetComments(s) ==
  /\ req[s].pc = "get:comments"
  /\ Set(s, Reply([req[s] EXCEPT !.results =
                     Cardinality({c \in comments : c.post_id = req[s].id})],
                  200, ""))
  /\ UNCHANGED <<store, tokens, now, sent, base>>

---------------------------------------------------------------------------
(* PATCH /api/users/profile *)

\* the row after SET of the fields the body defines
\* the update also putting the row back on the free tier
profileAssignResetTier(row, body) ==
  [row EXCEPT
     !.username = IF body.username # Undefined THEN body.username ELSE @,
     !.bio = IF body.bio # Undefined THEN body.bio ELSE @,
     !.tier = "free"]

profileAssign(row, body) ==
  [row EXCEPT
     !.username = IF body.username # Undefined THEN body.username ELSE @,
     !.bio = IF body.bio # Undefined THEN body.bio ELSE @]

\* UPDATE users SET ... WHERE id = ?: the new users table, or the old one
\* and a failure when UNIQUE(username) refuses the row
profileUpdateOk(u, body) ==
  u \notin DOMAIN users \/ body.username = Undefined
    \/ usersUsernameFree(u, body.username)
profileUpdated(u, body) ==
  IF u \in DOMAIN users /\ profileUpdateOk(u, body)
    THEN [users EXCEPT ![u] = profileAssign(@, body)]
    ELSE users

ProfileBegin(s, hdr, username, bio) ==
  /\ Free(s)
  /\ sent' = sent + 1
  /\ LET a == authMiddleware(hdr)
         body == [NoBody EXCEPT !.username = username, !.bio = bio]
         r == Arrived(s, "profile", hdr, a.user, 0, body)
     IN IF ~a.ok
          THEN Set(s, Reply(r, a.status, a.error)) /\ users' = users
        ELSE IF username # Undefined
          THEN /\ users' = users
               /\ Set(s, IF ~usersUsernameFree(a.user.userId, username)
                           THEN Reply(r, 409, "Username already taken.")
                           ELSE Goto(r, "profile:update"))
        ELSE IF bio = Undefined
          THEN Set(s, Reply(r, 400, "No fields to update.")) /\ users' = users
        ELSE /\ users' = profileUpdated(a.user.userId, body)
             /\ Set(s, Reply(r, 200, "Profile updated successfully."))
  /\ UNCHANGED <<posts, likes, comments, follows, shares, seq, tokens, now, base>>

ProfileUpdate(s) ==
  /\ req[s].pc = "profile:update"
  /\ users' = profileUpdated(req[s].user.userId, req[s].body)
  /\ Set(s, IF profileUpdateOk(req[s].user.userId, req[s].body)
              THEN Reply(req[s], 200, "Profile updated successfully.")
              ELSE Reply(req[s], 500, "Failed to update profile."))
  /\ UNCHANGED <<posts, likes, comments, follows, shares, seq, tokens, now, sent, base>>

---------------------------------------------------------------------------
(* Inputs the clients send *)

\* the headers of clients holding an issued token
ValidHeaders == {Bearer(t) : t \in tokens}
\* every header: none, a token under another scheme, issued tokens (expired
\* once now reaches exp), forged tokens
AllHeaders ==
  {NoHeader} \cup {Header(sc, t) : sc \in {"Bearer", "Basic"}, t \in tokens}
    \cup {Bearer(t) : t \in ForgedTokens}
\* the path parameters sent for a post id and for a user id
PostIdParams == PostIds \cup {NumPosts + 1, NaN}
UserIdParams == UserIds \cup {NumUsers + 1, NaN}
\* the bodies sent to PUT /api/posts/:id: <<content, media_type, visibility>>
PutInputs ==
  {<<Undefined, Undefined, Undefined>>, <<"edited", Undefined, Undefined>>,
   <<LongText, Undefined, Undefined>>, <<Undefined, "image", "private">>,
   <<Undefined, Undefined, "everyone">>}
\* the bodies sent to POST /api/posts
CreateInputs ==
  {<<"hello", Undefined, Undefined>>, <<"", Undefined, Undefined>>,
   <<"hello", "audio", "private">>, <<LongText, "image", "everyone">>}
\* the bodies sent to PATCH /api/users/profile: <<username, bio>>
ProfileInputs ==
  {<<Undefined, Undefined>>, <<Undefined, "hi">>, <<"bobsmith", Undefined>>,
   <<"newname", "hi">>}
\* the bodies sent to POST /api/posts/:id/comment: <<content, parent_comment_id>>
CommentInputs ==
  {<<"hello", Null>>, <<"hello", 1>>, <<"", Null>>, <<LongText, Null>>}

---------------------------------------------------------------------------
(* Steps of the handlers, and the first steps for a set of headers H *)

LikeSteps(s) ==
  \/ LikeSelect(s)
  \/ LikeInsert(s)
  \/ LikeUpdate(s)

FollowSteps(s) ==
  \/ FollowSelect(s)
  \/ UnfollowDelete(s)
  \/ UnfollowUpdate1(s)
  \/ UnfollowUpdate2(s)
  \/ FollowInsert(s)
  \/ FollowUpdate1(s)
  \/ FollowUpdate2(s)

ShareSteps(s) ==
  \/ ShareSelect(s)
  \/ ShareInsert(s)
  \/ ShareUpdate(s)

CommentSteps(s) ==
  \/ CommentParent(s)
  \/ CommentInsert(s)
  \/ CommentUpdate(s)

DeletePostSteps(s) ==
  \/ DeletePostDelete(s)
  \/ DeletePostUpdate(s)

\* (the guard Free(s) of the first step is repeated ahead of the inputs)
Like(s, H, Ids) ==
  Free(s) /\ \E hdr \in H, id \in Ids : LikeBegin(s, hdr, id)
Follow(s, H, Ids) ==
  Free(s) /\ \E hdr \in H, id \in Ids : FollowBegin(s, hdr, id)
Share(s, H, Ids) ==
  Free(s) /\ \E hdr \in H, id \in Ids : ShareBegin(s, hdr, id)
Comment(s, H, Ids, Bodies) ==
  Free(s) /\ \E hdr \in H, id \in Ids, b \in Bodies :
               CommentBegin(s, hdr, id, b[1], b[2])
DeletePost(s, H, Ids) ==
  Free(s) /\ \E hdr \in H, id \in Ids : DeletePostBegin(s, hdr, id)
DeleteAccount(s, H, Pws) ==
  Free(s) /\ \E hdr \in H, pw \in Pws : AccountBegin(s, hdr, pw)
Put(s, H, Ids, Bodies) ==
  Free(s) /\ \E hdr \in H, id \in Ids, b \in Bodies :
               PutBegin(s, hdr, id, b[1], b[2], b[3])
Create(s, H, Bodies) ==
  Free(s) /\ \E hdr \in H, b \in Bodies : CreateBegin(s, hdr, b[1], b[2], b[3])
List(s, Limits, Offsets, Sorts, Visibilities, Users) ==
  Free(s) /\ \E ql \in Limits, qo \in Offsets, qs \in Sorts, qv \in Visibilities,
                qu \in Users, bindNull \in BOOLEAN :
               ListBegin(s, ql, qo, qs, qv, qu, bindNull)
Profile(s, H, Bodies) ==
  Free(s) /\ \E hdr \in H, b \in Bodies : ProfileBegin(s, hdr, b[1], b[2])

---------------------------------------------------------------------------
(* Specifications *)

\* the whole API: every worker, header and input
Next ==
  \E s \in Workers :
    \/ Like(s, AllHeaders, PostIdParams) \/ LikeSteps(s)
    \/ Comment(s, AllHeaders, PostIdParams, CommentInputs) \/ CommentSteps(s)
    \/ Share(s, AllHeaders, PostIdParams) \/ ShareSteps(s)
    \/ Follow(s, AllHeaders, UserIdParams) \/ FollowSteps(s)
    \/ DeletePost(s, AllHeaders, PostIdParams) \/ DeletePostSteps(s)
    \/ DeleteAccount(s, AllHeaders, Passwords) \/ AccountDelete(s)
    \/ Put(s, AllHeaders, PostIdParams, PutInputs) \/ PutUpdate(s)
    \/ Create(s, AllHeaders, CreateInputs) \/ CreateUpdate(s)
    \/ Profile(s, AllHeaders, ProfileInputs) \/ ProfileUpdate(s)

Spec == Init /\ [][Next]_vars

\* Like requests only
NextLike ==
  \E s \in Workers : Like(s, ValidHeaders, PostIdParams) \/ LikeSteps(s)
SpecLike == Init /\ [][NextLike]_vars

\* follow toggles only
NextToggle ==
  \E s \in Workers : Follow(s, ValidHeaders, UserIdParams) \/ FollowSteps(s)
SpecToggle == Init /\ [][NextToggle]_vars

\* follow toggles one after the other: a request arrives when none is in flight
NextToggleSeq ==
  \E s \in Workers :
    \/ Quiescent /\ Follow(s, ValidHeaders, UserIdParams)
    \/ FollowSteps(s)
SpecToggleSeq == Init /\ [][NextToggleSeq]_vars

\* follow toggles and account deletions
NextFollow ==
  \E s \in Workers :
    \/ Follow(s, ValidHeaders, UserIdParams) \/ FollowSteps(s)
    \/ DeleteAccount(s, ValidHeaders, Passwords) \/ AccountDelete(s)
SpecFollow == Init /\ [][NextFollow]_vars

\* likes, comments, shares, post deletions and account deletions
NextSocial ==
  \E s \in Workers :
    \/ Like(s, ValidHeaders, PostIdParams) \/ LikeSteps(s)
    \/ Comment(s, ValidHeaders, PostIdParams, CommentInputs) \/ CommentSteps(s)
    \/ Share(s, ValidHeaders, PostIdParams) \/ ShareSteps(s)
    \/ DeletePost(s, ValidHeaders, PostIdParams) \/ DeletePostSteps(s)
    \/ DeleteAccount(s, ValidHeaders, Passwords) \/ AccountDelete(s)
SpecSocial == Init /\ [][NextSocial]_vars

\* shares of the seeded posts only; the users registered with the seeded
\* tiers, the first of them with any of the three
InitTiers ==
  /\ now = 0
  /\ \E k \in 0..2 :
       InitStore([u \in UserIds |-> SeedTier(((u + k - 1) % 3) + 1)], {})
NextShare == \E s \in Workers : Share(s, ValidHeaders, PostIds) \/ ShareSteps(s)
SpecShare == InitTiers /\ [][NextShare]_vars

\* updates, deletions and shares of a post that exists and of one that does not
MissingPost == NumPosts + 1
NextPrecedence ==
  \E s \in Workers :
    \/ Share(s, ValidHeaders, {1, MissingPost}) \/ ShareSteps(s)
    \/ Put(s, ValidHeaders, {1, MissingPost}, {<<"edited", Undefined, Undefined>>})
    \/ PutUpdate(s)
    \/ DeletePost(s, ValidHeaders, {1, MissingPost}) \/ DeletePostSteps(s)
SpecPrecedence == InitTiers /\ [][NextPrecedence]_vars

\* updates of a post with bodies that are valid, too long or of no known
\* visibility, sent by its owner and by another user, the post existing or not
InvalidPutInputs ==
  {<<LongText, Undefined, Undefined>>, <<Undefined, Undefined, "everyone">>}
NextValidation ==
  \E s \in Workers :
    \/ Put(s, ValidHeaders, {1, MissingPost},
           InvalidPutInputs \cup {<<"edited", Undefined, Undefined>>})
    \/ PutUpdate(s)
SpecValidation == Init /\ [][NextValidation]_vars

\* updates and deletions of the seeded posts, one of the users being an admin
InitAdmin ==
  /\ now = 0
  /\ \E a \in UserIds : InitStore([u \in UserIds |-> SeedTier(u)], {a})
NextPost ==
  \E s \in Workers :
    \/ Put(s, ValidHeaders, PostIds, {<<"edited", Undefined, "private">>})
    \/ PutUpdate(s)
    \/ DeletePost(s, ValidHeaders, PostIds) \/ DeletePostSteps(s)
SpecPost == InitAdmin /\ [][NextPost]_vars

\* shares of the seeded posts, one of the users being an admin, the requests
\* served one after the other
NextGates ==
  \E s \in Workers :
    \/ Quiescent /\ Share(s, ValidHeaders, PostIdParams)
    \/ ShareSteps(s)
SpecGates == InitAdmin /\ [][NextGates]_vars

\* every bearer-protected endpoint, served by one worker, one request after the
\* other: with no header, with a token under another scheme, with a forged
\* token and with the issued tokens, which are valid or already expired
AuthHeaders ==
  {NoHeader} \cup ValidHeaders
    \cup {Header("Basic", t) : t \in {u \in tokens : u.claims.userId = 1}}
    \cup {Bearer(t) : t \in {f \in ForgedTokens : f.claims.userId = 1}}
InitAuth ==
  /\ now \in {0, TokenTtl}
  /\ InitStore([u \in UserIds |-> SeedTier(u)], {})
NextAuth ==
  \/ Like(1, AuthHeaders, {1}) \/ LikeSteps(1)
  \/ Comment(1, AuthHeaders, {1}, {<<"hello", Null>>}) \/ CommentInsert(1)
  \/ CommentUpdate(1)
  \/ Share(1, AuthHeaders, {1}) \/ ShareSteps(1)
  \/ Follow(1, AuthHeaders, {1, 2}) \/ FollowSteps(1)
  \/ DeletePost(1, AuthHeaders, {1}) \/ DeletePostSteps(1)
  \/ DeleteAccount(1, AuthHeaders, {SeedPassword}) \/ AccountDelete(1)
  \/ Put(1, AuthHeaders, {1}, {<<"edited", Undefined, Undefined>>}) \/ PutUpdate(1)
  \/ Create(1, AuthHeaders, {<<"hello", Undefined, Undefined>>}) \/ CreateUpdate(1)
  \/ Profile(1, AuthHeaders, {<<"newname", "hi">>}) \/ ProfileUpdate(1)
SpecAuth == InitAuth /\ [][NextAuth]_vars

\* the store after every seeded user has liked and commented on every seeded
\* post (the first user's comment first, the others' as replies to it), the
\* users above the free tier have shared every post and every user follows
\* every other; the last user has been given the admin role
SeedCommentId(p, u) == (p - 1) * NumUsers + u
InitPopulated ==
  /\ now = 0
  /\ users = [u \in UserIds |->
                [UserRow(u, SeedTier(u), IF u = NumUsers THEN "admin" ELSE "user")
                   EXCEPT !.posts_count = Cardinality({p \in PostIds : SeedOwner(p) = u}),
                          !.followers_count = NumUsers - 1,
                          !.following_count = NumUsers - 1]]
  /\ posts = [p \in PostIds |->
                [PostRow(SeedOwner(p), "hello", NullText, "public")
                   EXCEPT !.likes_count = NumUsers,
                          !.comments_count = NumUsers,
                          !.shares_count =
                            Cardinality({u \in UserIds : SeedTier(u) # "free"})]]
  /\ likes = SetToBag({LikeRow(p, u) : p \in PostIds, u \in UserIds})
  /\ comments = {CommentRow(SeedCommentId(p, u), p, u,
                            IF u = 1 THEN Null ELSE SeedCommentId(p, 1)) :
                   p \in PostIds, u \in UserIds}
  /\ follows = SetToBag({FollowRow(e[1], e[2]) :
                           e \in {x \in UserIds \X UserIds : x[1] # x[2]}})
  /\ shares = SetToBag({ShareRow(p, u) :
                          p \in PostIds, u \in {v \in UserIds : SeedTier(v) # "free"}})
  /\ seq = [users |-> NumUsers, posts |-> NumPosts,
            comments |-> NumUsers * NumPosts]
  /\ tokens = {jwtSign(Claims(u, users[u].tier, users[u].role), ServerKey, 0) :
                 u \in UserIds}
  /\ sent = 0
  /\ req = [s \in Workers |-> Idle]
  /\ base = users

\* creations and deletions of posts, one of the users being an admin
NextPostsCount ==
  \E s \in Workers :
    \/ Create(s, ValidHeaders, {<<"hello", Undefined, Undefined>>})
    \/ CreateUpdate(s)
    \/ DeletePost(s, ValidHeaders, PostIdParams) \/ DeletePostSteps(s)
SpecPostsCount == InitAdmin /\ [][NextPostsCount]_vars

\* follow toggles from the populated store, where every user follows every other
SpecUnfollow == InitPopulated /\ [][NextToggle]_vars

\* replies to the seeded comments and to a comment that does not exist, under
\* the seeded posts and under a post created meanwhile, next to post deletions
AbsentComment == seq.comments + MaxRequests + 1
NextThread ==
  \E s \in Workers :
    \/ Comment(s, ValidHeaders, {1, NumPosts + 1},
               {<<"hello", 1>>, <<"hello", AbsentComment>>})
    \/ CommentSteps(s)
    \/ Create(s, ValidHeaders, {<<"hello", Undefined, Undefined>>})
    \/ CreateUpdate(s)
    \/ DeletePost(s, ValidHeaders, {1}) \/ DeletePostSteps(s)
SpecThread == InitPopulated /\ [][NextThread]_vars

\* pages of the list of posts, for limits and offsets that are absent, zero,
\* negative, above 100 or not numbers, while posts are created
QueryNumbers == {Undefined, "0", "1", "-5", "150", "abc"}
NextPage ==
  \E s \in Workers :
    \/ List(s, QueryNumbers, QueryNumbers, {Undefined, "popular", "trending"},
            {Undefined}, {Undefined})
    \/ Create(s, ValidHeaders, {<<"hello", Undefined, Undefined>>})
    \/ CreateUpdate(s)
SpecPage == Init /\ [][NextPage]_vars

\* creations and updates of posts with contents, media types and visibilities
\* that are allowed and that are not
NextStored ==
  \E s \in Workers :
    \/ Create(s, ValidHeaders,
              {<<"hello", "image", "private">>, <<LongText, Undefined, Undefined>>,
               <<"hello", "audio", "everyone">>})
    \/ CreateUpdate(s)
    \/ Put(s, ValidHeaders, PostIds,
           {<<"edited", "gif", "followers_only">>, <<LongText, Undefined, Undefined>>,
            <<Undefined, "audio", Undefined>>, <<Undefined, Undefined, "everyone">>})
    \/ PutUpdate(s)
SpecStored == Init /\ [][NextStored]_vars

\* lists of posts for every visibility a client may ask for, while posts are
\* created private and made visible to followers only
NextListing ==
  \E s \in Workers :
    \/ List(s, {Undefined}, {Undefined}, {Undefined, "popular"},
            {Undefined, "private", "followers_only"}, {Undefined, "1", "abc"})
    \/ Create(s, ValidHeaders, {<<"hello", Undefined, "private">>})
    \/ CreateUpdate(s)
    \/ Put(s, ValidHeaders, PostIds, {<<Undefined, Undefined, "followers_only">>})
    \/ PutUpdate(s)
SpecListing == Init /\ [][NextListing]_vars

\* Like requests against a store whose calls may fail
NextLikeThrows ==
  \E s \in Workers :
    \/ Like(s, ValidHeaders, PostIdParams) \/ LikeSteps(s)
    \/ LikeUpdateThrows(s)
SpecLikeThrows == Init /\ [][NextLikeThrows]_vars

\* registrations: <<name, email, password, username, tier>>
RegisterInputs ==
  {<<"Eve", "eve@example.com", SeedPassword, "evewilson", "premium">>,
   <<"Eve", "eve@example.com", SeedPassword, Undefined, Undefined>>,
   <<"Frank", "frank@example.com", SeedPassword, Undefined, "platinum">>,
   <<"Al", SeedEmail(1), SeedPassword, Undefined, Undefined>>,
   <<"Eve", "eve@example.com", "short", Undefined, Undefined>>,
   <<Undefined, "eve@example.com", SeedPassword, Undefined, Undefined>>}
Register(s, Bodies) ==
  Free(s) /\ \E b \in Bodies : RegisterBegin(s, b[1], b[2], b[3], b[4], b[5])
NextRegister ==
  \E s \in Workers : Register(s, RegisterInputs) \/ RegisterInsert(s)
SpecRegister == Init /\ [][NextRegister]_vars

\* account deletions and registrations, among requests that write a row for
\* the bearer of the token, who may have deleted the account before; the
\* requests are served one after the other
NextGhost ==
  \E s \in Workers :
    \/ /\ Quiescent
       /\ \/ DeleteAccount(s, ValidHeaders, {SeedPassword})
          \/ Register(s, {<<"Eve", "eve@example.com", SeedPassword, Undefined,
                            "premium">>})
          \/ Create(s, ValidHeaders, {<<"hello", Undefined, Undefined>>})
          \/ Like(s, ValidHeaders, {1})
          \/ Comment(s, ValidHeaders, {1}, {<<"hello", Null>>})
          \/ Follow(s, ValidHeaders, {1})
          \/ Share(s, ValidHeaders, {1})
    \/ AccountDelete(s) \/ RegisterInsert(s) \/ CreateUpdate(s)
    \/ LikeSteps(s) \/ CommentInsert(s) \/ CommentUpdate(s)
    \/ FollowSteps(s) \/ ShareSteps(s)
SpecGhost == Init /\ [][NextGhost]_vars

\* profile updates and registrations, among follows and creations of posts,
\* which move the counters of the users
NextIdentity ==
  \E s \in Workers :
    \/ Profile(s, ValidHeaders, ProfileInputs) \/ ProfileUpdate(s)
    \/ Register(s, {<<"Eve", "eve@example.com", SeedPassword, Undefined, "premium">>,
                    <<"Frank", "frank@example.com", SeedPassword, "frank", "platinum">>})
    \/ RegisterInsert(s)
    \/ Follow(s, ValidHeaders, {1}) \/ FollowSteps(s)
    \/ Create(s, ValidHeaders, {<<"hello", Undefined, Undefined>>}) \/ CreateUpdate(s)
SpecIdentity == Init /\ [][NextIdentity]_vars

\* deletions of accounts and of the seeded posts from the populated store,
\* among comments on the first post
NextDelete ==
  \E s \in Workers :
    \/ DeleteAccount(s, ValidHeaders, Passwords) \/ AccountDelete(s)
    \/ DeletePost(s, ValidHeaders, PostIds) \/ DeletePostSteps(s)
    \/ Comment(s, ValidHeaders, {1}, {<<"hello", Null>>})
    \/ CommentInsert(s) \/ CommentUpdate(s)
SpecDelete == InitPopulated /\ [][NextDelete]_vars

\* reads of single posts, among updates and creations that make posts private
Get(s, H, Ids) ==
  Free(s) /\ \E hdr \in H, id \in Ids : GetBegin(s, hdr, id)
NextRead ==
  \E s \in Workers :
    \/ Get(s, {NoHeader} \cup ValidHeaders, PostIdParams) \/ GetComments(s)
    \/ Put(s, ValidHeaders, PostIds, {<<Undefined, Undefined, "private">>})
    \/ PutUpdate(s)
    \/ Create(s, ValidHeaders, {<<"hello", Undefined, "private">>})
    \/ CreateUpdate(s)
SpecRead == Init /\ [][NextRead]_vars

\* creations of posts with a visibility that is omitted, allowed or not allowed
NextCreate ==
  \E s \in Workers :
    \/ Create(s, ValidHeaders,
              {<<"hello", Undefined, Undefined>>, <<"hello", Undefined, "private">>,
               <<"hello", "image", "everyone">>, <<"", Undefined, "everyone">>})
    \/ CreateUpdate(s)
SpecCreate == Init /\ [][NextCreate]_vars

\* logins and Like requests for the first post, served by one worker one
\* after the other while the clock runs
LoginInputs ==
  {<<SeedEmail(u), SeedPassword>> : u \in UserIds}
    \cup {<<SeedEmail(1), "wrong-password">>, <<Undefined, SeedPassword>>}
Login(s, Bodies) ==
  Free(s) /\ \E b \in Bodies : LoginBegin(s, b[1], b[2])
NextExpiry ==
  \/ Tick
  \/ Login(1, LoginInputs)
  \/ Like(1, ValidHeaders, {1}) \/ LikeSteps(1)
SpecExpiry == Init /\ [][NextExpiry]_vars

---------------------------------------------------------------------------
(* Properties *)

Done(s, kind) == req[s].pc = "done" /\ req[s].kind = kind

\* two workers hold the answers to the only two requests sent so far, both
\* of the given kind, by the same user and for the same id
TwoRequests(s, t, kind) ==
  /\ s # t
  /\ sent = 2
  /\ Done(s, kind) /\ Done(t, kind)
  /\ req[s].user = req[t].user
  /\ req[s].id = req[t].id

FollowersOf(u) == BagCount(follows, LAMBDA r : r.following_id = u)
FollowingOf(u) == BagCount(follows, LAMBDA r : r.follower_id = u)

\* C2: in every reachable state each existing user's followers_count is the
\* number of Follow rows whose following_id is that user, and following_count
\* the number of Follow rows whose follower_id is that user.
C2_FollowCountersMatchRows ==
  \A u \in DOMAIN users :
    /\ users[u].followers_count = FollowersOf(u)
    /\ users[u].following_count = FollowingOf(u)

\* the effect the claim C3 states: one Follow row (A,B), both counters one
\* above their value before the two requests
OneFollowOneIncrement(a, b) ==
  /\ CopiesIn(FollowRow(a, b), follows) = 1
  /\ users[b].followers_count = base[b].followers_count + 1
  /\ users[a].following_count = base[a].following_count + 1

\* C3 as stated: two concurrent follow requests from A to B, A not following
\* B before, leave under every interleaving exactly one Follow row (A,B) and
\* both counters incremented by exactly 1.
C3_AnyInterleaving ==
  \A s, t \in Workers :
    ( /\ TwoRequests(s, t, "follow")
      /\ req[s].conc \/ req[t].conc
      /\ req[s].status \in {200, 500} /\ req[t].status \in {200, 500} )
    => OneFollowOneIncrement(req[s].user.userId, req[s].id)

\* C3 amended: two concurrent follow requests from A to B, A not following B
\* before, that both read the Follow table before either inserts (both SELECTs
\* return no row) leave exactly one Follow row (A,B) and both counters
\* incremented by exactly 1.
C3_BothReadBeforeInsert ==
  \A s, t \in Workers :
    ( /\ TwoRequests(s, t, "follow")
      /\ req[s].status \in {200, 500} /\ req[t].status \in {200, 500}
      /\ req[s].results = 0 /\ req[t].results = 0 )
    => OneFollowOneIncrement(req[s].user.userId, req[s].id)

C3_Witness ==
  \E s, t \in Workers :
    /\ TwoRequests(s, t, "follow")
    /\ req[s].results = 0 /\ req[t].results = 0
    /\ req[s].status = 200 /\ req[t].status = 500
    /\ req[t].conc

\* C4: in every reachable state the Like table holds at most one row for each
\* (post_id, user_id) pair.
C4_LikeUnique == \A r \in DOMAIN likes : likes[r] <= 1

\* a second insert of a pair was attempted and refused by the store
C4_Witness ==
  \E s \in Workers :
    /\ Done(s, "like") /\ req[s].status = 500
    /\ CopiesIn(LikeRow(req[s].id, req[s].user.userId), likes) = 1

\* C5: when the same user issues two Like requests for the same existing post,
\* sequentially or concurrently, exactly one responds 201 and the other 409.
C5_One201One409 ==
  \A s, t \in Workers :
    (TwoRequests(s, t, "like") /\ req[s].id \in PostIds /\ req[s].user # NoUser)
    => {req[s].status, req[t].status} = {201, 409}

PostLikes(p) == BagCount(likes, LAMBDA r : r.post_id = p)
PostShares(p) == BagCount(shares, LAMBDA r : r.post_id = p)
PostComments(p) == Cardinality({c \in comments : c.post_id = p})

\* C1: in every state where no request is in flight each existing post's
\* likes_count, comments_count and shares_count equal the numbers of Like,
\* Comment and Share rows for that post.
C1_PostCountersMatchRows ==
  Quiescent =>
    \A p \in DOMAIN posts :
      /\ posts[p].likes_count = PostLikes(p)
      /\ posts[p].comments_count = PostComments(p)
      /\ posts[p].shares_count = PostShares(p)

\* C6: the Share table holds at most one row per (post_id, user_id); of two
\* Share requests of one premium user for one post the pair's shares_count is
\* incremented once and one request is answered 409.
C6_ShareOncePerPair ==
  /\ \A r \in DOMAIN shares : shares[r] <= 1
  /\ \A s, t \in Workers :
       ( /\ TwoRequests(s, t, "share")
         /\ req[s].status # 403 )
       => /\ posts[req[s].id].shares_count = 1
          /\ {req[s].status, req[t].status} = {200, 409}

\* worker s took request number sent + 1 in this step
Begun(s) == sent' = sent + 1 /\ req'[s].n = sent'

\* in this step worker s took a PUT or DELETE for an existing post from an
\* authenticated user
BegunOnPost(s, kind) ==
  /\ Begun(s)
  /\ req'[s].kind = kind
  /\ req'[s].user # NoUser
  /\ req'[s].id \in DOMAIN posts

IsOwner(s) == posts[req'[s].id].user_id = req'[s].user.userId
IsAdmin(s) == req'[s].user.role = "admin"
Answered(s, status) == req'[s].pc = "done" /\ req'[s].status = status

\* C7: an authenticated user who does not own post P (and, for DELETE, is not
\* admin) gets 403 on PUT and on DELETE of P, and the step changes no table:
\* P's row, its comments, likes and shares and its owner's posts_count stay.
C7_NonOwnerForbiddenNoChange ==
  [][\A s \in Workers :
       /\ (BegunOnPost(s, "put") /\ ~IsOwner(s))
            => (Answered(s, 403) /\ UNCHANGED store)
       /\ (BegunOnPost(s, "delete") /\ ~IsOwner(s) /\ ~IsAdmin(s))
            => (Answered(s, 403) /\ UNCHANGED store)]_vars

\* a PUT and a DELETE of a non-owner were both answered 403
C7_Witness ==
  \E s, t \in Workers :
    /\ Done(s, "put") /\ req[s].status = 403
    /\ Done(t, "delete") /\ req[t].status = 403
    /\ req[s].id \in DOMAIN posts /\ req[t].id \in DOMAIN posts
    /\ posts[req[s].id].user_id # req[s].user.userId
    /\ posts[req[t].id].user_id # req[t].user.userId

\* C8: DELETE of an existing post is allowed exactly when the requester owns
\* it or has the admin role; PUT is allowed only to the owner, so an admin who
\* is not the owner gets 403 on PUT.
C8_DeleteOwnerOrAdminPutOwner ==
  [][\A s \in Workers :
       /\ BegunOnPost(s, "delete")
            => /\ (req'[s].pc = "delete:delete") <=> (IsOwner(s) \/ IsAdmin(s))
               /\ Answered(s, 403) <=> ~(IsOwner(s) \/ IsAdmin(s))
       /\ BegunOnPost(s, "put")
            => /\ ~Answered(s, 403) => IsOwner(s)
               /\ (IsAdmin(s) /\ ~IsOwner(s)) => Answered(s, 403)]_vars

\* an admin who is not the owner was refused the PUT and deleted the post
C8_Witness ==
  \E s, t \in Workers :
    /\ Done(s, "put") /\ req[s].status = 403 /\ req[s].user.role = "admin"
    /\ Done(t, "delete") /\ req[t].status = 200 /\ req[t].user.role = "admin"
    /\ req[t].post_user_id # req[t].user.userId

\* the levels the claim C9 gives the tiers
C9_Level(t) ==
  CASE t = "free" -> 1
    [] t = "premium" -> 2
    [] t = "enterprise" -> 3

\* C9: requireTier(minTier) allows exactly when the level of the claims' tier
\* is at least the level of minTier; a Share request of a free-tier user gets
\* 403 with required "premium", creates no row and changes no counter, and
\* premium and enterprise users pass the gate.
C9_TierGate ==
  [][/\ \A t \in Tiers, m \in Tiers, u \in UserIds, r \in Roles :
          requireTier(m, Claims(u, t, r)).ok <=> C9_Level(t) >= C9_Level(m)
     /\ \A s \in Workers :
          (Begun(s) /\ req'[s].kind = "share" /\ req'[s].user # NoUser)
          => IF req'[s].user.tier = "free"
               THEN /\ Answered(s, 403)
                    /\ req'[s].required = "premium"
                    /\ UNCHANGED store
               ELSE req'[s].status # 403]_vars

\* a free user was refused with required "premium", an enterprise user shared
C9_Witness ==
  \E s, t \in Workers :
    /\ Done(s, "share") /\ req[s].status = 403 /\ req[s].required = "premium"
    /\ req[s].user.tier = "free"
    /\ Done(t, "share") /\ req[t].status = 200 /\ req[t].user.tier = "enterprise"
    /\ BagIn(ShareRow(req[t].id, req[t].user.userId), shares)

\* the header is absent, does not start with 'Bearer ', or its token does not
\* verify (signed by another key, or expired)
BadHeader(h) ==
  \/ ~h.present
  \/ h.scheme # "Bearer"
  \/ h.token.key # ServerKey
  \/ now >= h.token.exp

ProtectedKinds ==
  {"create", "like", "comment", "put", "profile", "follow", "share", "delete",
   "account"}

\* C10: on every bearer-protected endpoint a request with no Authorization
\* header, a header not starting with 'Bearer ', or a token that fails
\* verification is answered 401 by the middleware, the handler body does not
\* run and the store is unchanged.
C10_BadHeaderUnauthorized ==
  [][\A s \in Workers :
       (Begun(s) /\ req'[s].kind \in ProtectedKinds /\ BadHeader(req'[s].hdr))
       => /\ Answered(s, 401)
          /\ req'[s].msg \in {"Missing or malformed Authorization header",
                              "Invalid or expired token"}
          /\ UNCHANGED store]_vars

\* a request under another scheme carrying a valid token was answered 401
\* after an authenticated request had liked a post
C10_Witness ==
  \E s \in Workers :
    /\ req[s].pc = "done" /\ req[s].status = 401
    /\ req[s].hdr.scheme = "Basic" /\ jwtVerify(req[s].hdr.token)
    /\ req[s].n = 2
    /\ BagCardinality(likes) = 1

\* C11: a token issued at time t with time-to-live T is accepted by the
\* Auth Guard at every time strictly before t + T and rejected with 401 at
\* every time at or after t + T.
C11_TokenLifetime ==
  [][\A s \in Workers :
       ( /\ Begun(s)
         /\ req'[s].kind = "like"
         /\ req'[s].hdr \in ValidHeaders )
       => LET tok == req'[s].hdr.token
          IN IF now < tok.iat + TokenTtl
               THEN req'[s].user = tok.claims /\ req'[s].status # 401
               ELSE Answered(s, 401) /\ req'[s].user = NoUser]_vars

\* a user's token issued at 0 was accepted for the first request, which
\* liked the post, and is rejected for the second at hour TokenTtl
C11_Witness ==
  \E s \in Workers :
    /\ Done(s, "like") /\ req[s].n = 2 /\ req[s].status = 401
    /\ req[s].hdr \in ValidHeaders
    /\ now = req[s].hdr.token.iat + TokenTtl
    /\ BagIn(LikeRow(1, req[s].hdr.token.claims.userId), likes)

\* C12: GET /api/posts/:id returns a post whose visibility is private only
\* to a requester authenticated as that post's owner; an unauthenticated
\* requester, or an authenticated one who is not the owner, does not receive it.
C12_PrivateOnlyToOwner ==
  \A s \in Workers :
    ( /\ Done(s, "get")
      /\ req[s].status = 200
      /\ req[s].post.visibility = "private" )
    => /\ authMiddleware(req[s].hdr).ok
       /\ authMiddleware(req[s].hdr).user.userId = req[s].post.user_id

\* C13: a Create Post request whose visibility is present but not one of
\* public, private, followers_only is rejected with 400, writes no Post row
\* and changes no posts_count.
C13_InvalidVisibilityRejected ==
  \A s \in Workers :
    ( /\ req[s].kind = "create"
      /\ req[s].body.visibility \notin validVisibility \cup {Undefined} )
    => /\ req[s].pc = "done"
       /\ req[s].status \in {400, 401}
       /\ DOMAIN posts = PostIds
       /\ \A u \in DOMAIN users : users[u].posts_count = base[u].posts_count

\* C14: a Delete Account request with a valid token but a missing or
\* non-matching password deletes nothing and responds with an error; a user
\* row is deleted only by a request whose password matches the stored hash.
C14_PasswordBeforeDelete ==
  [][/\ \A s \in Workers :
          ( /\ Begun(s)
            /\ req'[s].kind = "account"
            /\ req'[s].user # NoUser
            /\ \/ req'[s].body.password = Undefined
               \/ /\ req'[s].user.userId \in DOMAIN users
                  /\ users[req'[s].user.userId].password
                       # bcryptHash(req'[s].body.password) )
          => /\ req'[s].pc = "done"
             /\ req'[s].status \in {400, 401}
             /\ UNCHANGED store
     /\ DOMAIN users' # DOMAIN users
          => \E s \in Workers :
               /\ req[s].kind = "account" /\ req[s].pc = "account:delete"
               /\ DOMAIN users' = DOMAIN users \ {req[s].user.userId}
               /\ users[req[s].user.userId].password
                    = bcryptHash(req[s].body.password)
               /\ req'[s].status = 200]_vars

\* one account was deleted and a request with a wrong password for another
\* was refused, the populated rows of that other user still there
C14_Witness ==
  \E s, t \in Workers :
    /\ Done(s, "account") /\ req[s].status = 200
    /\ req[s].user.userId \notin DOMAIN users
    /\ Done(t, "account") /\ req[t].status = 401
    /\ req[t].body.password = "wrong-password"
    /\ req[t].user.userId \in DOMAIN users
    /\ \E r \in DOMAIN likes : r.user_id = req[t].user.userId

\* no Post, Comment, Like, Follow or Share row references user U
NoRowReferencesUser(U) ==
  /\ \A p \in DOMAIN posts : posts[p].user_id # U
  /\ \A c \in comments : c.user_id # U
  /\ \A r \in DOMAIN likes : r.user_id # U
  /\ \A r \in DOMAIN shares : r.user_id # U
  /\ \A r \in DOMAIN follows : r.follower_id # U /\ r.following_id # U

\* no Comment, Like or Share row references post P
NoRowReferencesPost(P) ==
  /\ \A c \in comments : c.post_id # P
  /\ \A r \in DOMAIN likes : r.post_id # P
  /\ \A r \in DOMAIN shares : r.post_id # P

\* the deletions answered with success have left no referencing row
DeletedLeaveNoRow ==
  \A s \in Workers :
    /\ (Done(s, "account") /\ req[s].status = 200)
         => NoRowReferencesUser(req[s].user.userId)
    /\ (Done(s, "delete") /\ req[s].status = 200)
         => NoRowReferencesPost(req[s].id)

\* the posts other than those in P are the same rows after the step
OtherPostsUnchanged(P) ==
  \A p \in DOMAIN posts \ P : p \in DOMAIN posts' /\ posts'[p] = posts[p]

\* C15: after a successful Delete Account for user U no Post, Comment, Like,
\* Follow or Share row references U; after a successful Delete Post for post P
\* no Comment, Like or Share row references P; and in both cases the posts and
\* the posts_count of every other user are unchanged.
C15_CascadeComplete ==
  [][/\ DeletedLeaveNoRow'
     /\ \A s \in Workers :
          /\ (req[s].pc = "account:delete" /\ req'[s].pc = "done")
               => LET U == req[s].user.userId
                  IN /\ U \notin DOMAIN users'
                     /\ OtherPostsUnchanged({p \in DOMAIN posts : posts[p].user_id = U})
                     /\ \A v \in DOMAIN users \ {U} :
                          users'[v].posts_count = users[v].posts_count
          /\ (req[s].pc = "delete:delete" /\ req'[s].pc = "delete:update")
               => /\ req[s].id \notin DOMAIN posts'
                  /\ OtherPostsUnchanged({req[s].id})
                  /\ users' = users
          /\ (req[s].pc = "delete:update" /\ req'[s].pc = "done")
               => /\ req'[s].status = 200
                  /\ posts' = posts
                  /\ \A v \in DOMAIN users \ {req[s].post_user_id} :
                       users'[v] = users[v]]_vars

\* the admin deleted the first user's post and the first user's account was
\* deleted, while the admin's likes, comments, shares and follows were there
C15_Witness ==
  \E s, t \in Workers :
    /\ Done(s, "account") /\ req[s].status = 200 /\ req[s].user.userId = 1
    /\ Done(t, "delete") /\ req[t].status = 200 /\ req[t].post_user_id = 1
    /\ req[t].user.role = "admin"
    /\ 1 \notin DOMAIN users

\* C16: two registration requests with the same email, sequential or
\* concurrent, create exactly one user row and are answered 201 and 409: a
\* uniqueness violation raised by the store on insert is translated to 409,
\* never to 500.
C16_OneRowAnd409 ==
  \A s, t \in Workers :
    ( /\ s # t /\ sent = 2
      /\ Done(s, "register") /\ Done(t, "register")
      /\ req[s].body.email = req[t].body.email
      /\ req[s].body.email \notin {base[u].email : u \in DOMAIN base}
      /\ req[s].status # 400 /\ req[t].status # 400 )
    => /\ Cardinality({u \in DOMAIN users : users[u].email = req[s].body.email}) = 1
       /\ {req[s].status, req[t].status} = {201, 409}

\* C17: no reachable state, including one left by a failure between the
\* handler's store calls, has a Like row written without its likes_count
\* adjustment or the adjustment without the row.
C17_NoPartialApplication ==
  \A p \in DOMAIN posts : posts[p].likes_count = PostLikes(p)

\* C18: after any interleaving of Create Post and Delete Post requests,
\* including two concurrent DELETE requests for one post by its owner and/or
\* an admin, every user's posts_count equals the number of Post rows the user
\* owns.
C18_PostsCountMatchesRows ==
  Quiescent =>
    \A u \in DOMAIN users :
      users[u].posts_count =
        Cardinality({p \in DOMAIN posts : posts[p].user_id = u})

\* C19: a follow toggle whose insert hits the store's uniqueness constraint
\* on (follower_id, following_id), a concurrent request having inserted the
\* row, responds with a success status and not with an error.
C19_InsertConflictSucceeds ==
  \A s \in Workers :
    (Done(s, "follow") /\ req[s].status \notin {400, 404}) => req[s].status = 200

\* C20: when two concurrent toggle requests from A against B both observe
\* that A follows B, the Follow row is removed once and A.following_count and
\* B.followers_count are each decremented by exactly 1 in total, so no counter
\* becomes negative.
C20_DoubleUnfollowOnce ==
  \A s, t \in Workers :
    ( /\ TwoRequests(s, t, "follow")
      /\ req[s].results > 0 /\ req[t].results > 0 )
    => LET A == req[s].user.userId
           B == req[s].id
       IN /\ ~BagIn(FollowRow(A, B), follows)
          /\ users[A].following_count = base[A].following_count - 1
          /\ users[B].followers_count = base[B].followers_count - 1
          /\ \A u \in DOMAIN users :
               users[u].followers_count >= 0 /\ users[u].following_count >= 0

\* the users table of the start with the two counters of a follow (A,B) added
BaseWithFollow(A, B) ==
  [base EXCEPT ![A].following_count = @ + 1, ![B].followers_count = @ + 1]

\* C21: a follow toggle by A against an existing user B other than A, run
\* with no concurrent request, performs exactly one of create or remove: with
\* the row (A,B) absent it inserts it, increments B.followers_count and
\* A.following_count by 1 and reports followed; otherwise it deletes it,
\* decrements both by 1 and reports unfollowed; two such requests in sequence
\* restore the original Follow rows and counters.
C21_ToggleSequential ==
  /\ Quiescent => C2_FollowCountersMatchRows
  /\ \A s \in Workers :
       (Done(s, "follow") /\ req[s].status = 200 /\ req[s].n = sent)
       => LET row == FollowRow(req[s].user.userId, req[s].id)
          IN IF req[s].results = 0
               THEN req[s].msg = "followed" /\ CopiesIn(row, follows) = 1
               ELSE req[s].msg = "unfollowed" /\ CopiesIn(row, follows) = 0
  /\ \A s \in Workers :
       (Done(s, "follow") /\ req[s].status = 200 /\ sent = 1)
       => /\ follows = SetToBag({FollowRow(req[s].user.userId, req[s].id)})
          /\ users = BaseWithFollow(req[s].user.userId, req[s].id)
  /\ \A s, t \in Workers :
       (TwoRequests(s, t, "follow") /\ req[s].status = 200 /\ req[t].status = 200)
       => follows = EmptyBag /\ users = base

\* a follow and then an unfollow of the same user were answered
C21_Witness ==
  \E s, t \in Workers :
    /\ TwoRequests(s, t, "follow")
    /\ req[s].n = 1 /\ req[s].status = 200 /\ req[s].msg = "followed"
    /\ req[t].n = 2 /\ req[t].status = 200 /\ req[t].msg = "unfollowed"

\* C22: a mutation request to which more than one of not-found, forbidden and
\* conflict applies is answered 404 in preference to 403 and 403 in preference
\* to 409: an authenticated PUT, DELETE or share naming a post that does not
\* exist is answered 404, whoever sends it.
C22_NotFoundBeforeForbidden ==
  [][\A s \in Workers :
       (/\ Begun(s)
        /\ req'[s].kind \in {"put", "delete", "share"}
        /\ req'[s].user # NoUser
        /\ ~isNaN(req'[s].id)
        /\ req'[s].id \notin DOMAIN posts)
       => Answered(s, 404)]_vars

\* C23: a request with malformed or out-of-range input is answered 400 before
\* the handler reads or writes the store: an authenticated Update Post whose
\* content is over-long or whose visibility is invalid is answered 400 whether
\* or not the post exists and whoever owns it.
C23_InvalidInputFirst ==
  [][\A s \in Workers :
       (/\ Begun(s)
        /\ req'[s].kind = "put"
        /\ req'[s].user # NoUser
        /\ <<req'[s].body.content, req'[s].body.media_type,
             req'[s].body.visibility>> \in InvalidPutInputs)
       => Answered(s, 400)]_vars

\* C24: the tier gate decides on the tier claim alone and the admin gate on
\* the role claim alone: claims that differ only in role get the same
\* requireTier outcome (an admin whose tier is free is denied Share Post, with
\* no change of the store), claims that differ only in tier get the same
\* requireAdmin outcome.
C24_GatesIndependent ==
  [][/\ \A u \in UserIds, t \in Tiers, m \in Tiers, r1 \in Roles, r2 \in Roles :
          requireTier(m, Claims(u, t, r1)) = requireTier(m, Claims(u, t, r2))
     /\ \A u \in UserIds, r \in Roles, t1 \in Tiers, t2 \in Tiers :
          requireAdmin(Claims(u, t1, r)) = requireAdmin(Claims(u, t2, r))
     /\ \A r \in Roles, t \in Tiers, u \in UserIds :
          requireAdmin(Claims(u, t, r)).ok <=> r = "admin"
     /\ \A s \in Workers :
          (/\ Begun(s) /\ req'[s].kind = "share"
           /\ req'[s].user # NoUser
           /\ req'[s].user.role = "admin")
          => IF req'[s].user.tier = "free"
               THEN Answered(s, 403) /\ UNCHANGED store
               ELSE req'[s].status # 403]_vars

\* an admin whose tier is free was denied the share
C24_Witness ==
  \E s \in Workers :
    /\ Done(s, "share") /\ req[s].status = 403
    /\ req[s].user.role = "admin" /\ req[s].user.tier = "free"
    /\ requireAdmin(req[s].user).ok

\* every reply refers to a stored comment of the same post
ParentsOnSamePost ==
  \A c \in comments :
    c.parent_comment_id # Null
    => \E q \in comments : q.id = c.parent_comment_id /\ q.post_id = c.post_id

\* worker s has just looked its parent comment up
ParentLookedUp(s) ==
  req[s].pc = "comment:parent" /\ req'[s].pc # "comment:parent"

\* C25: in every reachable state each comment with a non-null
\* parent_comment_id refers to an existing parent comment on the same post; a
\* comment request naming a parent that is absent or belongs to a different
\* post is answered 404, inserts nothing and leaves comments_count unchanged.
C25_ParentOnSamePost ==
  [][/\ ParentsOnSamePost /\ ParentsOnSamePost'
     /\ \A s \in Workers :
          (/\ ParentLookedUp(s)
           /\ ~\E q \in comments : /\ q.id = req[s].body.parent_comment_id
                                   /\ q.post_id = req[s].id)
          => /\ Answered(s, 404)
             /\ req'[s].msg = "Parent comment not found."
             /\ UNCHANGED store]_vars

\* a reply was stored and a reply naming a parent that is not a comment of the
\* post was refused
C25_Witness ==
  \E s, t \in Workers :
    /\ s # t
    /\ Done(s, "comment") /\ req[s].status = 404
    /\ req[s].msg = "Parent comment not found."
    /\ Done(t, "comment") /\ req[t].status = 201
    /\ req[t].body.parent_comment_id # Null
    /\ \E c \in comments : c.parent_comment_id # Null /\ c.id > NumUsers * NumPosts

\* C26: for every value of the limit and offset query parameters of List
\* Posts (negative, zero, above 100, non-numeric included) the limit used and
\* echoed is at most 100 and at least 0, the offset used and echoed is a
\* non-negative integer, no more posts are returned than the limit, and the
\* echoed count equals the number of posts returned.
C26_PaginationClamped ==
  \A s \in Workers :
    (Done(s, "list") /\ req[s].status = 200)
    => /\ req[s].page.limit <= 100
       /\ req[s].page.limit >= 0
       /\ req[s].page.offset >= 0
       /\ req[s].page.count <= req[s].page.limit
       /\ req[s].page.count = Cardinality(req[s].page.posts)

\* C27: after any sequence of Create Post and Update Post requests every
\* stored post has a content of at most 5000 characters, a visibility among
\* public, private and followers_only, and a media_type that is null or one
\* of image, video and gif.
C27_StoredPostsValid ==
  \A p \in DOMAIN posts :
    /\ ContentLength(posts[p].content) <= 5000
    /\ posts[p].visibility \in validVisibility
    /\ posts[p].media_type \in validMediaTypes \cup {NullText}

\* C28: GET /api/posts never returns a post whose visibility is private or
\* followers_only to an unauthenticated requester, whatever the visibility
\* query parameter carries.
C28_ListOnlyPublic ==
  \A s \in Workers :
    (Done(s, "list") /\ req[s].user = NoUser)
    => \A r \in req[s].page.posts : r.visibility = "public"

\* the ids handed out so far that no user carries any more
DeletedUsers == (1..seq.users) \ DOMAIN users

\* C29: user ids are never reused: after a successful Delete Account for U a
\* still-unexpired token issued to U passes the Auth Guard but can create no
\* Post, Like, Comment, Follow or Share row, and U's id is never assigned to a
\* later-registered user.
C29_DeletedIdNeverReused ==
  [][/\ \A U \in DeletedUsers' : NoRowReferencesUser(U)'
     /\ DOMAIN users' \subseteq 1..seq'.users
     /\ seq'.users >= seq.users
     /\ \A u \in DOMAIN users' \ DOMAIN users :
          u > seq.users /\ u \notin DeletedUsers
     /\ DeletedUsers \subseteq DeletedUsers'
     /\ \A s \in Workers :
          (/\ Begun(s)
           /\ req'[s].hdr \in ValidHeaders
           /\ req'[s].hdr.token.claims.userId \in DeletedUsers)
          => /\ req'[s].user = req'[s].hdr.token.claims
             /\ req'[s].status # 401
             /\ UNCHANGED store]_vars

\* the bearer of a deleted account passed the guard and the store refused the
\* row
C29_Witness ==
  \E s, t \in Workers :
    /\ Done(s, "account") /\ req[s].status = 200 /\ req[s].n = 1
    /\ Done(t, req[t].kind) /\ req[t].n = 2
    /\ req[t].kind \in {"create", "like", "comment", "follow", "share"}
    /\ req[t].user = req[s].user
    /\ req[t].user.userId \in DeletedUsers
    /\ req[t].status = 500

\* worker s has just taken a step of an Update Profile request
ProfileStep(s) ==
  \/ Begun(s) /\ req'[s].kind = "profile"
  \/ req[s].pc = "profile:update" /\ req'[s].pc = "done"

\* C30: no sequence of API requests changes an existing user's tier or role:
\* Update Profile leaves tier, role, email, password hash and all three
\* counters unchanged, every user created by registration has role user, and
\* its tier is the one fixed at registration.
C30_TierAndRoleFixed ==
  [][/\ \A u \in DOMAIN users \cap DOMAIN users' :
          /\ users'[u].tier = users[u].tier
          /\ users'[u].role = users[u].role
     /\ \A u \in DOMAIN users' \ DOMAIN users :
          \E s \in Workers :
            /\ req[s].pc = "register:insert" /\ req'[s].id = u
            /\ users'[u].role = "user"
            /\ users'[u].tier = IF req[s].body.tier \in Tiers
                                  THEN req[s].body.tier ELSE "free"
     /\ \A s \in Workers :
          ProfileStep(s)
          => /\ DOMAIN users' = DOMAIN users
             /\ \A u \in DOMAIN users :
                  users'[u] = [users[u] EXCEPT !.username = users'[u].username,
                                               !.bio = users'[u].bio]]_vars

\* a profile was updated and a user was registered on the premium tier
C30_Witness ==
  \E s, t \in Workers :
    /\ Done(s, "profile") /\ req[s].status = 200
    /\ req[s].user.userId \in DOMAIN users
    /\ users[req[s].user.userId].bio = "hi"
    /\ users[req[s].user.userId].tier = req[s].user.tier
    /\ Done(t, "register") /\ req[t].status = 201
    /\ users[req[t].id].role = "user" /\ users[req[t].id].tier = "premium"
====
